---- MODULE Spec2Model ----
(***************************************************************************)
(* Local-first item store (IndexedDB, database/db.ts) with its cloud       *)
(* mirror (Firestore, services/firestoreService.ts).                       *)
(*                                                                         *)
(* The browser session runs asynchronous calls of the db.ts API.  Every    *)
(* `await` of the source is a point where other calls, the Firestore       *)
(* backend, the other devices of a user and the auth provider may take a   *)
(* step, so each call is a small state machine (its pc).                   *)
(***************************************************************************)
EXTENDS Integers, Sequences, FiniteSets, TLC

\* ------------------------------------------------------------------ bounds
MaxCalls == 2      \* db.ts API calls started in one behaviour
MaxTime == 2       \* values of the wall clock Date.now()
DummyCount == 2    \* items in the array insertDummyData builds (8 in db.ts)
MaxUi == 4         \* clicks and keystrokes of the user on HomeScreen and the modal
MaxEnv == 2        \* events of the environment: auth changes, clock ticks, writes of
                   \* other devices, failures, (un)subscriptions

\* ------------------------------------------------------------- value sets
Ids == {1, 2}              \* item ids (UUID strings, in key order)
Users == {"A", "B"}        \* Firebase uids
NoUser == "none"           \* auth.currentUser === null
Undef == "undefined"       \* the JavaScript value undefined
Null == "null"             \* the JavaScript value null
Tasks == 1..MaxCalls

\* JavaScript truthiness of the values an optional field can hold:
\* `x || y` takes y when x is undefined, null, the empty string or 0.
Falsy(v) == v \in {Undef, Null, "", "0"}

\* ---------------------------------------------------------------- Item
\* Two field assignments per id.  ItemA is what the Add form produces when
\* only the name is filled in; ItemB carries every optional field, with a
\* latitude of 0 (a falsy number).
ItemA(id) ==
    [id |-> id, name |-> "Car Keys", description |-> Undef, createdAt |-> 1,
     imageUrl |-> Undef, labels |-> <<>>, audioUrl |-> Undef,
     audioTranscription |-> Undef, latitude |-> Undef, longitude |-> Undef,
     locationName |-> Undef]

ItemB(id) ==
    [id |-> id, name |-> "Wallet", description |-> "Brown leather wallet",
     createdAt |-> 2, imageUrl |-> "data:image", labels |-> <<"important", "daily">>,
     audioUrl |-> "data:audio", audioTranscription |-> "voice note",
     latitude |-> "0", longitude |-> "77.2", locationName |-> "Home"]

InputItems == {ItemA(id) : id \in Ids} \cup {ItemB(id) : id \in Ids}

\* The arguments the calls are tried with.
AddInputs == InputItems
UpdateInputs == {ItemB(1), ItemA(2)}
RemoteInputs == {ItemA(1), ItemB(1)}

\* Batches handed to addItems (insertDummyData builds one such array).
Batches == {<<ItemA(1), ItemB(2)>>, <<ItemB(1), ItemB(2)>>}

\* ------------------------------------------------------ the edit form
\* The state of the AddEditItemModal form when it is submitted: what the user
\* typed for an item, with surrounding blanks, and a form whose name is blank.
FormFilled ==
    [name |-> " Spare Keys ", description |-> "", labels |-> "spare, daily",
     imageUrl |-> Undef, audioUrl |-> Undef, audioTranscription |-> ""]

FormBlank == [FormFilled EXCEPT !.name = "  "]

Forms == {FormFilled, FormBlank}

\* String.prototype.trim on the strings the forms hold.
Trim(str) ==
    CASE str = " Spare Keys " -> "Spare Keys"
      [] str = "  " -> ""
      [] OTHER -> str

\* labels.split(',').map(l => l.trim()).filter(l => l), or [] for no text.
ParseLabels(str) ==
    CASE str = "" -> <<>>
      [] str = "spare, daily" -> <<"spare", "daily">>
      [] str = "important, daily" -> <<"important", "daily">>
      [] OTHER -> <<str>>

\* item.labels.join(', '), on the label lists the items hold.
JoinLabels(labels) ==
    CASE labels = <<>> -> ""
      [] labels = <<"spare", "daily">> -> "spare, daily"
      [] labels = <<"important", "daily">> -> "important, daily"
      [] OTHER -> labels[1]

\* handleSubmit: `if (!name.trim())` refuses the save.
NameValid_NoTrim(form) == form.name /= ""

NameValid(form) == Trim(form.name) /= ""

\* handleSubmit, add mode: newItem, with the id crypto.randomUUID() returned
\* and the creation time t = Date.now().
NewItem(id, form, t) ==
    [id |-> id, name |-> Trim(form.name),
     description |-> IF Falsy(Trim(form.description)) THEN Undef
                     ELSE Trim(form.description),
     createdAt |-> t,
     imageUrl |-> form.imageUrl, labels |-> ParseLabels(form.labels),
     audioUrl |-> form.audioUrl,
     audioTranscription |-> IF Falsy(form.audioTranscription) THEN Undef
                            ELSE form.audioTranscription,
     latitude |-> Undef, longitude |-> Undef, locationName |-> Undef]

\* ------------------------------------------------ the IndexedDB object store
\* The 'items' object store is a function from the keys present to records.
EmptyStore == [k \in {} |-> ItemA(k)]

\* db.put('items', item): keyPath 'id', insert or replace.
IDBPut_Keep(store, item) ==
    IF item.id \in DOMAIN store THEN store
    ELSE [k \in DOMAIN store \cup {item.id} |-> IF k = item.id THEN item ELSE store[k]]

IDBPut(store, item) ==
    [k \in DOMAIN store \cup {item.id} |-> IF k = item.id THEN item ELSE store[k]]

\* db.delete('items', id): removes the key, no error when it is absent.
IDBDelete(store, id) == [k \in DOMAIN store \ {id} |-> store[k]]

\* db.clear('items')
IDBClear(store) == EmptyStore

\* db.get('items', id): the record, or undefined (the empty sequence here).
IDBGet(store, id) == IF id \in DOMAIN store THEN <<store[id]>> ELSE <<>>

\* tx.store.put for every item of the array, in one transaction.
RECURSIVE PutAll(_, _)
PutAll(store, items) ==
    IF items = <<>> THEN store ELSE PutAll(IDBPut(store, Head(items)), Tail(items))

\* Order of the index 'by-createdAt': by createdAt, then by primary key.
IndexBefore(a, b) ==
    \/ a.createdAt < b.createdAt
    \/ a.createdAt = b.createdAt /\ a.id <= b.id

RECURSIVE GetAllFromIndex(_, _)
GetAllFromIndex(store, keys) ==
    IF keys = {} THEN <<>>
    ELSE LET k == CHOOSE x \in keys : \A y \in keys : IndexBefore(store[x], store[y])
         IN  <<store[k]>> \o GetAllFromIndex(store, keys \ {k})

Reverse(s) == [i \in 1..Len(s) |-> s[Len(s) + 1 - i]]

\* getAllItems(): the index scan, reversed.
GetAllItems_Ascending(store) == GetAllFromIndex(store, DOMAIN store)

GetAllItems(store) == Reverse(GetAllFromIndex(store, DOMAIN store))

\* String.prototype.toLowerCase, character by character (ASCII letters).
UpperLetters == "ABCDEFGHIJKLMNOPQRSTUVWXYZ"
LowerLetters == "abcdefghijklmnopqrstuvwxyz"

CharAt(str, i) == SubSeq(str, i, i)

LowerChar(c) ==
    IF \E i \in 1..26 : CharAt(UpperLetters, i) = c
    THEN CharAt(LowerLetters, CHOOSE i \in 1..26 : CharAt(UpperLetters, i) = c)
    ELSE c

RECURSIVE ToLowerCase(_)
ToLowerCase(str) ==
    IF Len(str) = 0 THEN ""
    ELSE LowerChar(CharAt(str, 1)) \o ToLowerCase(SubSeq(str, 2, Len(str)))

\* String.prototype.includes: part occurs in str at some position.
Includes(str, part) ==
    \E i \in 1..(Len(str) - Len(part) + 1) : SubSeq(str, i, i + Len(part) - 1) = part

\* The predicate searchItems filters with.
SearchKeep(item, lowerQuery) ==
    \/ Includes(ToLowerCase(item.name), lowerQuery)
    \/ ~Falsy(item.description) /\ Includes(ToLowerCase(item.description), lowerQuery)

\* allItems.filter(...) with that predicate.
RECURSIVE FilterItems(_, _)
FilterItems(items, lowerQuery) ==
    IF items = <<>> THEN <<>>
    ELSE (IF SearchKeep(Head(items), lowerQuery) THEN <<Head(items)>> ELSE <<>>)
             \o FilterItems(Tail(items), lowerQuery)

\* searchItems(query) on the items getAllItems() returned.
SearchItems_CaseSensitive(store, query) == FilterItems(GetAllItems(store), query)

SearchItems(store, query) == FilterItems(GetAllItems(store), ToLowerCase(query))

\* ------------------------------------------------------ the Firestore side
\* The document syncItemToCloud builds from an item at time t.
ItemData_LatitudeOr(item, t) ==
    [id |-> item.id, name |-> item.name,
     description |-> IF Falsy(item.description) THEN Null ELSE item.description,
     createdAt |-> item.createdAt,
     imageUrl |-> IF Falsy(item.imageUrl) THEN Null ELSE item.imageUrl,
     labels |-> item.labels,
     audioUrl |-> IF Falsy(item.audioUrl) THEN Null ELSE item.audioUrl,
     audioTranscription |->
         IF Falsy(item.audioTranscription) THEN Null ELSE item.audioTranscription,
     latitude |-> IF Falsy(item.latitude) THEN Null ELSE item.latitude,
     longitude |-> IF Falsy(item.longitude) THEN Null ELSE item.longitude,
     locationName |-> IF Falsy(item.locationName) THEN Null ELSE item.locationName,
     updatedAt |-> t]

ItemData(item, t) ==
    [id |-> item.id, name |-> item.name,
     description |-> IF Falsy(item.description) THEN Null ELSE item.description,
     createdAt |-> item.createdAt,
     imageUrl |-> IF Falsy(item.imageUrl) THEN Null ELSE item.imageUrl,
     labels |-> item.labels,          \* `item.labels || []`: an array is truthy
     audioUrl |-> IF Falsy(item.audioUrl) THEN Null ELSE item.audioUrl,
     audioTranscription |->
         IF Falsy(item.audioTranscription) THEN Null ELSE item.audioTranscription,
     latitude |-> IF item.latitude /= Undef THEN item.latitude ELSE Null,
     longitude |-> IF item.longitude /= Undef THEN item.longitude ELSE Null,
     locationName |-> IF Falsy(item.locationName) THEN Null ELSE item.locationName,
     updatedAt |-> t]

\* documentToItem(data): the Item read back from a document (no updatedAt).
documentToItem_NoLocationName(data) ==
    [id |-> data.id, name |-> data.name,
     description |-> IF Falsy(data.description) THEN Undef ELSE data.description,
     createdAt |-> data.createdAt,
     imageUrl |-> IF Falsy(data.imageUrl) THEN Undef ELSE data.imageUrl,
     labels |-> data.labels,
     audioUrl |-> IF Falsy(data.audioUrl) THEN Undef ELSE data.audioUrl,
     audioTranscription |->
         IF Falsy(data.audioTranscription) THEN Undef ELSE data.audioTranscription,
     latitude |-> IF data.latitude /= Null /\ data.latitude /= Undef
                  THEN data.latitude ELSE Undef,
     longitude |-> IF data.longitude /= Null /\ data.longitude /= Undef
                   THEN data.longitude ELSE Undef,
     locationName |-> Undef]

documentToItem(data) ==
    [id |-> data.id, name |-> data.name,
     description |-> IF Falsy(data.description) THEN Undef ELSE data.description,
     createdAt |-> data.createdAt,
     imageUrl |-> IF Falsy(data.imageUrl) THEN Undef ELSE data.imageUrl,
     labels |-> data.labels,          \* `data.labels || []`: an array is truthy
     audioUrl |-> IF Falsy(data.audioUrl) THEN Undef ELSE data.audioUrl,
     audioTranscription |->
         IF Falsy(data.audioTranscription) THEN Undef ELSE data.audioTranscription,
     latitude |-> IF data.latitude /= Null /\ data.latitude /= Undef
                  THEN data.latitude ELSE Undef,
     longitude |-> IF data.longitude /= Null /\ data.longitude /= Undef
                   THEN data.longitude ELSE Undef,
     locationName |-> IF Falsy(data.locationName) THEN Undef ELSE data.locationName]

\* A collection users/{uid}/items is a function from document ids to documents.
EmptyCollection == [k \in {} |-> ItemData(ItemA(k), 1)]

\* setDoc(itemDoc, itemData) without merge options: the document is replaced
\* whatever it held.
SetDoc_NewerWins(coll, id, data) ==
    IF id \in DOMAIN coll /\ coll[id].updatedAt > data.updatedAt THEN coll
    ELSE [k \in DOMAIN coll \cup {id} |-> IF k = id THEN data ELSE coll[k]]

SetDoc(coll, id, data) ==
    [k \in DOMAIN coll \cup {id} |-> IF k = id THEN data ELSE coll[k]]

\* deleteDoc(itemDoc)
DeleteDoc(coll, id) == [k \in DOMAIN coll \ {id} |-> coll[k]]

\* A write as it travels to the backend: the target path users/{uid}/items/{id}
\* and, for a set, the document (a sequence of length one).
Write(task, uid, kind, id, data) ==
    [task |-> task, uid |-> uid, kind |-> kind, id |-> id, data |-> data]

\* The backend applying a write to the collections.
ApplyWrite(c, w) ==
    [c EXCEPT ![w.uid] = IF w.kind = "set" THEN SetDoc(@, w.id, w.data[1])
                         ELSE DeleteDoc(@, w.id)]

\* docChanges() of a snapshot: what changed between two views of a collection.
DocChanges(old, new) ==
    [id \in Ids |->
        IF id \in DOMAIN new /\ id \notin DOMAIN old THEN "added"
        ELSE IF id \in DOMAIN new /\ new[id] /= old[id] THEN "modified"
        ELSE IF id \in DOMAIN old /\ id \notin DOMAIN new THEN "removed"
        ELSE "none"]

Max(a, b) == IF a >= b THEN a ELSE b

\* ------------------------------------------------------------------- state
VARIABLES
    user,        \* auth.currentUser: a uid, or NoUser
    localStore,  \* the IndexedDB object store 'items' of this browser
    cloud,       \* Firestore: for every uid the collection users/{uid}/items
    outbox,      \* writes handed to the Firestore SDK, not yet acknowledged
    now,         \* Date.now()
    tasks,       \* the calls of the db.ts API made in this session
    listener,    \* the uid whose collection onSnapshot listens to, or NoUser
    seen,        \* the view of the collection last handed to the listener
    cbKind,      \* what the callback of listenToCloudChanges last received
    changes,     \* the docChanges of the snapshot last handed to the callback
    lastWriter,  \* history: for every id the call that last wrote its local entry
    maxTs,       \* history: the greatest updatedAt applied to users/{u}/items/{id}
    lastApplied, \* history: the document of the set applied last to that path
    env,         \* history: environment events so far
    modal,       \* the AddEditItemModal: isOpen, itemId and its form state
    conn,        \* db.ts: dbInstance and the connections initDB opened
    calc         \* a call of a pure function: its arguments and its result

vars == <<user, localStore, cloud, outbox, now, tasks, listener, seen, cbKind,
          changes, lastWriter, maxTs, lastApplied, env, modal, conn, calc>>

\* What the calls of the store API, the backend and the auth provider leave
\* alone.
aux == <<modal, conn, calc>>

\* handleSubmit, edit mode: updatedItem = {...existingItem, <form fields>}.
EditedItem_NewCreatedAt(existing, form) ==
    [existing EXCEPT
        !.name = Trim(form.name),
        !.description = IF Falsy(Trim(form.description)) THEN Undef
                        ELSE Trim(form.description),
        !.createdAt = now,
        !.labels = ParseLabels(form.labels),
        !.imageUrl = form.imageUrl,
        !.audioUrl = form.audioUrl,
        !.audioTranscription = IF Falsy(form.audioTranscription) THEN Undef
                               ELSE form.audioTranscription]

EditedItem(existing, form) ==
    [existing EXCEPT
        !.name = Trim(form.name),
        !.description = IF Falsy(Trim(form.description)) THEN Undef
                        ELSE Trim(form.description),
        !.labels = ParseLabels(form.labels),
        !.imageUrl = form.imageUrl,
        !.audioUrl = form.audioUrl,
        !.audioTranscription = IF Falsy(form.audioTranscription) THEN Undef
                               ELSE form.audioTranscription]

\* A call: its operation, position, arguments and outcome.
\*   items   the item argument(s)            id      the id argument
\*   uid     the uid getItemsCollection() read (NoUser before it ran)
\*   result  the resolved value of a read    status  "run", "ok" or "error"
\*   issued  setDoc/deleteDoc calls made     logged  console.warn / console.error
\*   fault   (history) the storage engine failed this call's request
\*   had     (history) for a deleteItem: the id was present when it deleted
\*   prior   (history) for a getItemById: the call that had last written the
\*           id and had returned when this call was made (0: none)
\*   after   (history) lastWriter of the id when a getItemById read it
\*   form    for a handleSubmit: the form state it was submitted with
\*   auth    (history) auth.currentUser when the call was made
\*   wrote   (history) the call's write of the Local Store succeeded
\*   wuser   (history) auth.currentUser at that write
NewTask == [op |-> "none", pc |-> "idle", items |-> <<>>, id |-> 0, uid |-> NoUser,
            result |-> <<>>, status |-> "run", issued |-> 0, logged |-> "",
            fault |-> FALSE, had |-> FALSE, prior |-> 0, after |-> 0, auth |-> NoUser,
            wrote |-> FALSE, wuser |-> NoUser, form |-> <<>>]

\* The modal before it is first opened: closed, in add mode, the form empty.
\*   nameFrom / restFrom  (history) the itemId the modal showed when the name,
\*                        respectively the other fields, last received a value
\*                        (0: the add-mode reset), or the id they were loaded from
EmptyForm ==
    [name |-> "", description |-> "", labels |-> "", imageUrl |-> Undef,
     audioUrl |-> Undef, audioTranscription |-> "", nameFrom |-> 0, restFrom |-> 0]

ClosedModal == [isOpen |-> FALSE, itemId |-> 0, form |-> EmptyForm, loads |-> {}, returned |-> {}]

\* db.ts before the first getDB(): dbInstance null, nothing opened.
\*   opened  (history) calls of initDB so far
\*   used    (history) for every call the connection getDB() returned to it
NoConnection ==
    [dbInstance |-> 0, opened |-> 0, opening |-> [t \in Tasks |-> 0],
     used |-> [t \in Tasks |-> 0]]

NoCalc == [fn |-> "none"]

\* A session starts signed out or with the persisted user restored, on the
\* database a previous session left.
InitStores == {EmptyStore, IDBPut(EmptyStore, ItemA(1))}

Init ==
    /\ user \in {NoUser, "A"}
    /\ localStore \in InitStores
    /\ cloud = [u \in Users |-> EmptyCollection]
    /\ outbox = <<>>
    /\ now = 1
    /\ tasks = [t \in Tasks |-> NewTask]
    /\ listener = NoUser
    /\ seen = EmptyCollection
    /\ cbKind = "none"
    /\ changes = [id \in Ids |-> "none"]
    /\ lastWriter = [id \in Ids |-> 0]
    /\ maxTs = [u \in Users |-> [id \in Ids |-> 0]]
    /\ lastApplied = [u \in Users |-> EmptyCollection]
    /\ env = 0
    /\ modal = ClosedModal
    /\ conn = NoConnection
    /\ calc = NoCalc

\* Calls are numbered in the order they are made.
CanStart(t) == tasks[t].pc = "idle" /\ (IF t = 1 THEN TRUE ELSE tasks[t - 1].pc /= "idle")

Finish(t, status) == [tasks EXCEPT ![t].pc = "done", ![t].status = status]

\* The `catch` of syncItemToCloud / deleteItemFromCloud: console.error, and the
\* function returns normally, so the awaiting call returns too.
CatchSyncError_Rethrow(t) ==
    [tasks EXCEPT ![t].pc = "done", ![t].status = "error", ![t].logged = "error"]

CatchSyncError(t) ==
    [tasks EXCEPT ![t].pc = "done", ![t].status = "ok", ![t].logged = "error"]

\* The outcome of the request db.delete makes: deleting a key that is not in
\* the store succeeds like any other delete.
DeleteOutcome_AbsentFails(store, id) == IF id \in DOMAIN store THEN "ok" ELSE "error"

DeleteOutcome(store, id) == "ok"

\* History of the writes the backend applied.
NoteApplied(w) ==
    /\ maxTs' = [maxTs EXCEPT ![w.uid][w.id] =
                    IF w.kind = "set" THEN Max(@, w.data[1].updatedAt) ELSE 0]
    /\ lastApplied' = [lastApplied EXCEPT ![w.uid] =
                        IF w.kind = "set"
                        THEN [k \in DOMAIN @ \cup {w.id} |->
                                 IF k = w.id THEN w.data[1] ELSE @[k]]
                        ELSE [k \in DOMAIN @ \ {w.id} |-> @[k]]]

\* ------------------------------------------------------------ auth, clock
\* signIn / signUp resolved: auth.currentUser becomes the user.
Login(u) ==
    /\ env < MaxEnv
    /\ env' = env + 1
    /\ user = NoUser
    /\ user' = u
    /\ UNCHANGED <<localStore, cloud, outbox, now, tasks, listener, seen, cbKind,
                   changes, lastWriter, maxTs, lastApplied>>
    /\ UNCHANGED aux

\* logOut() resolved (handleLogout, or a sign-out in another tab).
Logout ==
    /\ env < MaxEnv
    /\ env' = env + 1
    /\ user /= NoUser
    /\ user' = NoUser
    /\ UNCHANGED <<localStore, cloud, outbox, now, tasks, listener, seen, cbKind,
                   changes, lastWriter, maxTs, lastApplied>>
    /\ UNCHANGED aux

Tick ==
    /\ env < MaxEnv
    /\ env' = env + 1
    /\ now < MaxTime
    /\ now' = now + 1
    /\ UNCHANGED <<user, localStore, cloud, outbox, tasks, listener, seen, cbKind,
                   changes, lastWriter, maxTs, lastApplied>>
    /\ UNCHANGED aux

\* ------------------------------------------------------- calls of the API
ReturnedWriter(id) ==
    IF lastWriter[id] = 0 THEN 0
    ELSE IF tasks[lastWriter[id]].pc = "done" THEN lastWriter[id] ELSE 0

\* The record of call t once it is made: every exported function starts with
\* `const db = await getDB()` and continues at its first store operation.
Started(t, op, pc, items, id) ==
    [tasks EXCEPT ![t] =
        [NewTask EXCEPT !.op = op, !.pc = pc, !.items = items, !.id = id,
                        !.auth = user,
                        !.prior = IF op = "getItemById" THEN ReturnedWriter(id) ELSE 0]]

AddItemCall(t, item) ==
    /\ CanStart(t)
    /\ tasks' = Started(t, "addItem", "put", <<item>>, item.id)
    /\ UNCHANGED <<user, localStore, cloud, outbox, now, listener, seen, cbKind,
                   changes, lastWriter, maxTs, lastApplied, env>>
    /\ UNCHANGED aux

UpdateItemCall(t, item) ==
    /\ CanStart(t)
    /\ tasks' = Started(t, "updateItem", "put", <<item>>, item.id)
    /\ UNCHANGED <<user, localStore, cloud, outbox, now, listener, seen, cbKind,
                   changes, lastWriter, maxTs, lastApplied, env>>
    /\ UNCHANGED aux

DeleteItemCall(t, id) ==
    /\ CanStart(t)
    /\ tasks' = Started(t, "deleteItem", "delete", <<>>, id)
    /\ UNCHANGED <<user, localStore, cloud, outbox, now, listener, seen, cbKind,
                   changes, lastWriter, maxTs, lastApplied, env>>
    /\ UNCHANGED aux

AddItemsCall(t, items) ==
    /\ CanStart(t)
    /\ tasks' = Started(t, "addItems", "putAll", items, 0)
    /\ UNCHANGED <<user, localStore, cloud, outbox, now, listener, seen, cbKind,
                   changes, lastWriter, maxTs, lastApplied, env>>
    /\ UNCHANGED aux

DeleteAllItemsCall(t) ==
    /\ CanStart(t)
    /\ tasks' = Started(t, "deleteAllItems", "clear", <<>>, 0)
    /\ UNCHANGED <<user, localStore, cloud, outbox, now, listener, seen, cbKind,
                   changes, lastWriter, maxTs, lastApplied, env>>
    /\ UNCHANGED aux

GetItemByIdCall(t, id) ==
    /\ CanStart(t)
    /\ tasks' = Started(t, "getItemById", "get", <<>>, id)
    /\ UNCHANGED <<user, localStore, cloud, outbox, now, listener, seen, cbKind,
                   changes, lastWriter, maxTs, lastApplied, env>>
    /\ UNCHANGED aux

GetAllItemsCall(t) ==
    /\ CanStart(t)
    /\ tasks' = Started(t, "getAllItems", "getAll", <<>>, 0)
    /\ UNCHANGED <<user, localStore, cloud, outbox, now, listener, seen, cbKind,
                   changes, lastWriter, maxTs, lastApplied, env>>
    /\ UNCHANGED aux

\* handleSubmit of the modal in edit mode (itemId set).  A blank name is
\* refused with an alert before anything is read; otherwise the handler
\* continues at `await getItemById(itemId)`.
EditSubmitCall(t, id, form) ==
    /\ CanStart(t)
    /\ tasks' = IF NameValid(form)
                THEN [Started(t, "editItem", "editGet", <<>>, id) EXCEPT
                         ![t].form = <<form>>]
                ELSE [Started(t, "editItem", "done", <<>>, id) EXCEPT
                         ![t].form = <<form>>, ![t].status = "invalid"]
    /\ UNCHANGED <<user, localStore, cloud, outbox, now, listener, seen, cbKind,
                   changes, lastWriter, maxTs, lastApplied, env>>
    /\ UNCHANGED aux

\* handleSubmit of the modal in add mode (no itemId): the same validation, then
\* newItem is built with a fresh id and handed to addItem.
AddSubmitCall(t, id, form) ==
    /\ CanStart(t)
    /\ id \notin DOMAIN localStore
    /\ \A a \in Tasks : tasks[a].id /= id
    /\ tasks' = IF NameValid(form)
                THEN [Started(t, "addItem", "put", <<NewItem(id, form, now)>>, id) EXCEPT
                         ![t].form = <<form>>]
                ELSE [Started(t, "addItem", "done", <<>>, id) EXCEPT
                         ![t].form = <<form>>, ![t].status = "invalid"]
    /\ UNCHANGED <<user, localStore, cloud, outbox, now, listener, seen, cbKind,
                   changes, lastWriter, maxTs, lastApplied, env>>
    /\ UNCHANGED aux

\* handleSubmit: existingItem = await getItemById(itemId).  When the item is
\* there the handler builds updatedItem and calls updateItem (db.put, then
\* syncItemToCloud); when it is not, it closes the modal without writing.
EditGet_WithoutSpread(t) ==
    /\ tasks[t].pc = "editGet"
    /\ LET existing == IDBGet(localStore, tasks[t].id)
       IN  tasks' = IF existing = <<>>
                    THEN [Finish(t, "ok") EXCEPT ![t].after = lastWriter[tasks[t].id]]
                    ELSE [tasks EXCEPT
                             ![t].result = existing,
                             ![t].after = lastWriter[tasks[t].id],
                             ![t].items = <<NewItem(tasks[t].id, tasks[t].form[1],
                                                    existing[1].createdAt)>>,
                             ![t].pc = "put"]
    /\ UNCHANGED <<user, localStore, cloud, outbox, now, listener, seen, cbKind,
                   changes, lastWriter, maxTs, lastApplied, env>>
    /\ UNCHANGED aux

EditGet(t) ==
    /\ tasks[t].pc = "editGet"
    /\ LET existing == IDBGet(localStore, tasks[t].id)
       IN  tasks' = IF existing = <<>>
                    THEN [Finish(t, "ok") EXCEPT ![t].after = lastWriter[tasks[t].id]]
                    ELSE [tasks EXCEPT
                             ![t].result = existing,
                             ![t].after = lastWriter[tasks[t].id],
                             ![t].items = <<EditedItem(existing[1], tasks[t].form[1])>>,
                             ![t].pc = "put"]
    /\ UNCHANGED <<user, localStore, cloud, outbox, now, listener, seen, cbKind,
                   changes, lastWriter, maxTs, lastApplied, env>>
    /\ UNCHANGED aux

\* addItem / updateItem: `await db.put('items', item)`.
DbPut(t) ==
    /\ tasks[t].pc = "put"
    /\ localStore' = IDBPut(localStore, tasks[t].items[1])
    /\ lastWriter' = [lastWriter EXCEPT ![tasks[t].id] = t]
    /\ tasks' = [tasks EXCEPT ![t].pc = "sync", ![t].wrote = TRUE, ![t].wuser = user]
    /\ UNCHANGED <<user, cloud, outbox, now, listener, seen, cbKind, changes,
                   maxTs, lastApplied, env>>
    /\ UNCHANGED aux

\* addItem / updateItem: `await syncItemToCloud(item)` up to its `await setDoc`.
\* Without a user it warns and returns; otherwise the write is handed to the
\* SDK and the call waits for its acknowledgement.
SyncItemToCloud_ThrowsWithoutUser(t) ==
    /\ tasks[t].pc = "sync"
    /\ IF user = NoUser
       THEN /\ tasks' = [Finish(t, "error") EXCEPT ![t].logged = "warn"]
            /\ UNCHANGED outbox
       ELSE /\ outbox' = Append(outbox, Write(t, user, "set", tasks[t].id,
                                               <<ItemData(tasks[t].items[1], now)>>))
            /\ tasks' = [tasks EXCEPT ![t].pc = "await", ![t].uid = user,
                                      ![t].issued = @ + 1]
    /\ UNCHANGED <<user, localStore, cloud, now, listener, seen, cbKind, changes,
                   lastWriter, maxTs, lastApplied, env>>
    /\ UNCHANGED aux

SyncItemToCloud(t) ==
    /\ tasks[t].pc = "sync"
    /\ IF user = NoUser
       THEN /\ tasks' = [Finish(t, "ok") EXCEPT ![t].logged = "warn"]
            /\ UNCHANGED outbox
       ELSE /\ outbox' = Append(outbox, Write(t, user, "set", tasks[t].id,
                                               <<ItemData(tasks[t].items[1], now)>>))
            /\ tasks' = [tasks EXCEPT ![t].pc = "await", ![t].uid = user,
                                      ![t].issued = @ + 1]
    /\ UNCHANGED <<user, localStore, cloud, now, listener, seen, cbKind, changes,
                   lastWriter, maxTs, lastApplied, env>>
    /\ UNCHANGED aux

\* deleteItem: `await db.delete('items', id)`.
DbDelete(t) ==
    /\ tasks[t].pc = "delete"
    /\ IF DeleteOutcome(localStore, tasks[t].id) = "ok"
       THEN /\ localStore' = IDBDelete(localStore, tasks[t].id)
            /\ lastWriter' = [lastWriter EXCEPT ![tasks[t].id] = t]
            /\ tasks' = [tasks EXCEPT ![t].pc = "syncDelete",
                                      ![t].had = tasks[t].id \in DOMAIN localStore,
                                      ![t].wrote = TRUE, ![t].wuser = user]
       ELSE /\ tasks' = Finish(t, "error")
            /\ UNCHANGED <<localStore, lastWriter>>
    /\ UNCHANGED <<user, cloud, outbox, now, listener, seen, cbKind, changes,
                   maxTs, lastApplied, env>>
    /\ UNCHANGED aux

\* deleteItem: `await deleteItemFromCloud(id)` up to its `await deleteDoc`.
DeleteItemFromCloud_Twice(t) ==
    /\ tasks[t].pc = "syncDelete"
    /\ IF user = NoUser
       THEN /\ tasks' = [Finish(t, "ok") EXCEPT ![t].logged = "warn"]
            /\ UNCHANGED outbox
       ELSE /\ outbox' = Append(outbox, Write(t, user, "delete", tasks[t].id, <<>>))
            /\ tasks' = [tasks EXCEPT ![t].pc = "await", ![t].uid = user,
                                      ![t].issued = @ + 2]
    /\ UNCHANGED <<user, localStore, cloud, now, listener, seen, cbKind, changes,
                   lastWriter, maxTs, lastApplied, env>>
    /\ UNCHANGED aux

DeleteItemFromCloud(t) ==
    /\ tasks[t].pc = "syncDelete"
    /\ IF user = NoUser
       THEN /\ tasks' = [Finish(t, "ok") EXCEPT ![t].logged = "warn"]
            /\ UNCHANGED outbox
       ELSE /\ outbox' = Append(outbox, Write(t, user, "delete", tasks[t].id, <<>>))
            /\ tasks' = [tasks EXCEPT ![t].pc = "await", ![t].uid = user,
                                      ![t].issued = @ + 1]
    /\ UNCHANGED <<user, localStore, cloud, now, listener, seen, cbKind, changes,
                   lastWriter, maxTs, lastApplied, env>>
    /\ UNCHANGED aux

\* addItems: the readwrite transaction putting every item; no cloud call.
TxPutAll(t) ==
    /\ tasks[t].pc = "putAll"
    /\ localStore' = PutAll(localStore, tasks[t].items)
    /\ lastWriter' = [id \in Ids |->
                        IF \E i \in 1..Len(tasks[t].items) : tasks[t].items[i].id = id
                        THEN t ELSE lastWriter[id]]
    /\ tasks' = [Finish(t, "ok") EXCEPT ![t].wrote = TRUE, ![t].wuser = user]
    /\ UNCHANGED <<user, cloud, outbox, now, listener, seen, cbKind, changes,
                   maxTs, lastApplied, env>>
    /\ UNCHANGED aux

\* deleteAllItems: `await db.clear('items')`; no cloud call.
DbClear(t) ==
    /\ tasks[t].pc = "clear"
    /\ localStore' = IDBClear(localStore)
    /\ lastWriter' = [id \in Ids |-> IF id \in DOMAIN localStore THEN t ELSE lastWriter[id]]
    /\ tasks' = [Finish(t, "ok") EXCEPT ![t].wrote = TRUE, ![t].wuser = user]
    /\ UNCHANGED <<user, cloud, outbox, now, listener, seen, cbKind, changes,
                   maxTs, lastApplied, env>>
    /\ UNCHANGED aux

\* getItemById: `return db.get('items', id)`.
DbGet(t) ==
    /\ tasks[t].pc = "get"
    /\ tasks' = [Finish(t, "ok") EXCEPT ![t].result = IDBGet(localStore, tasks[t].id),
                                        ![t].after = lastWriter[tasks[t].id]]
    /\ UNCHANGED <<user, localStore, cloud, outbox, now, listener, seen, cbKind,
                   changes, lastWriter, maxTs, lastApplied, env>>
    /\ UNCHANGED aux

\* getAllItems: the index scan, reversed.
DbGetAll(t) ==
    /\ tasks[t].pc = "getAll"
    /\ tasks' = [Finish(t, "ok") EXCEPT ![t].result = GetAllItems(localStore)]
    /\ UNCHANGED <<user, localStore, cloud, outbox, now, listener, seen, cbKind,
                   changes, lastWriter, maxTs, lastApplied, env>>
    /\ UNCHANGED aux

\* The storage engine fails the pending request (quota, corruption): the
\* awaited promise rejects and, db.ts catching nothing, so does the call.
StorageFailure_StillSyncs(t) ==
    /\ env < MaxEnv
    /\ env' = env + 1
    /\ tasks[t].pc \in {"put", "delete", "putAll", "clear", "get", "getAll", "editGet"}
    /\ tasks' = IF tasks[t].pc = "put"
                THEN [tasks EXCEPT ![t].pc = "sync", ![t].fault = TRUE]
                ELSE [Finish(t, "error") EXCEPT ![t].fault = TRUE]
    /\ UNCHANGED <<user, localStore, cloud, outbox, now, listener, seen, cbKind,
                   changes, lastWriter, maxTs, lastApplied>>
    /\ UNCHANGED aux

StorageFailure_ResolvesUndefined(t) ==
    /\ env < MaxEnv
    /\ env' = env + 1
    /\ tasks[t].pc \in {"put", "delete", "putAll", "clear", "get", "getAll", "editGet"}
    /\ tasks' = [Finish(t, "ok") EXCEPT ![t].fault = TRUE]
    /\ UNCHANGED <<user, localStore, cloud, outbox, now, listener, seen, cbKind,
                   changes, lastWriter, maxTs, lastApplied>>
    /\ UNCHANGED aux

StorageFailure(t) ==
    /\ env < MaxEnv
    /\ env' = env + 1
    /\ tasks[t].pc \in {"put", "delete", "putAll", "clear", "get", "getAll", "editGet"}
    /\ tasks' = [Finish(t, "error") EXCEPT ![t].fault = TRUE]
    /\ UNCHANGED <<user, localStore, cloud, outbox, now, listener, seen, cbKind,
                   changes, lastWriter, maxTs, lastApplied>>
    /\ UNCHANGED aux

\* ------------------------------------------------------ the Firestore backend
\* The backend commits the oldest pending write; its promise resolves and the
\* call that awaited it returns.
ServerCommit ==
    /\ outbox /= <<>>
    /\ LET w == Head(outbox)
       IN  /\ cloud' = ApplyWrite(cloud, w)
           /\ NoteApplied(w)
           /\ tasks' = Finish(w.task, "ok")
    /\ outbox' = Tail(outbox)
    /\ UNCHANGED <<user, localStore, now, listener, seen, cbKind, changes,
                   lastWriter, env>>
    /\ UNCHANGED aux

\* The backend rejects the oldest pending write (rules, quota): the promise
\* rejects, the catch block logs the error and the call returns normally.
ServerReject ==
    /\ env < MaxEnv
    /\ env' = env + 1
    /\ outbox /= <<>>
    /\ tasks' = CatchSyncError(Head(outbox).task)
    /\ outbox' = Tail(outbox)
    /\ UNCHANGED <<user, localStore, cloud, now, listener, seen, cbKind, changes,
                   lastWriter, maxTs, lastApplied>>
    /\ UNCHANGED aux

\* Another device of user u runs syncItemToCloud; its document was built at
\* time ts on that device and reaches the backend now.
RemoteSet(u, item, ts) ==
    /\ env < MaxEnv
    /\ ts <= now
    /\ LET w == Write(0, u, "set", item.id, <<ItemData(item, ts)>>)
       IN  cloud' = ApplyWrite(cloud, w) /\ NoteApplied(w)
    /\ env' = env + 1
    /\ UNCHANGED <<user, localStore, outbox, now, tasks, listener, seen, cbKind,
                   changes, lastWriter>>
    /\ UNCHANGED aux

\* Another device of user u runs deleteItemFromCloud.
RemoteDelete(u, id) ==
    /\ env < MaxEnv
    /\ id \in DOMAIN cloud[u]
    /\ LET w == Write(0, u, "delete", id, <<>>)
       IN  cloud' = ApplyWrite(cloud, w) /\ NoteApplied(w)
    /\ env' = env + 1
    /\ UNCHANGED <<user, localStore, outbox, now, tasks, listener, seen, cbKind,
                   changes, lastWriter>>
    /\ UNCHANGED aux

\* ---------------------------------------------------------- the listener
\* listenToCloudChanges(callback): without a user, callback(null) and no
\* subscription; otherwise onSnapshot on the user's collection.
ListenToCloudChanges ==
    /\ env < MaxEnv
    /\ env' = env + 1
    /\ listener = NoUser
    /\ IF user = NoUser
       THEN cbKind' = "null" /\ UNCHANGED <<listener, seen>>
       ELSE listener' = user /\ seen' = EmptyCollection /\ cbKind' = "subscribed"
    /\ UNCHANGED <<user, localStore, cloud, outbox, now, tasks, changes,
                   lastWriter, maxTs, lastApplied>>
    /\ UNCHANGED aux

\* The snapshot listener fires (first with the initial state, then on every
\* change): `callback(snapshot)`, and nothing else.
OnSnapshot ==
    /\ listener /= NoUser
    /\ cbKind = "subscribed" \/ cloud[listener] /= seen
    /\ cbKind' = "snapshot"
    /\ changes' = DocChanges(seen, cloud[listener])
    /\ seen' = cloud[listener]
    /\ UNCHANGED <<user, localStore, cloud, outbox, now, tasks, listener,
                   lastWriter, maxTs, lastApplied, env>>
    /\ UNCHANGED aux

\* The Unsubscribe function listenToCloudChanges returned is called: the SDK
\* detaches the listener and drops the snapshots it had not yet delivered.
Unsubscribe_KeepsListening ==
    /\ env < MaxEnv
    /\ env' = env + 1
    /\ listener /= NoUser
    /\ cbKind' = "unsubscribed"
    /\ UNCHANGED <<user, localStore, cloud, outbox, now, tasks, listener, seen, changes,
                   lastWriter, maxTs, lastApplied>>
    /\ UNCHANGED aux

Unsubscribe ==
    /\ env < MaxEnv
    /\ env' = env + 1
    /\ listener /= NoUser
    /\ listener' = NoUser
    /\ cbKind' = "unsubscribed"
    /\ UNCHANGED <<user, localStore, cloud, outbox, now, tasks, seen, changes,
                   lastWriter, maxTs, lastApplied>>
    /\ UNCHANGED aux

\* ------------------------------------------------------------------- spec
Next ==
    \/ \E u \in Users : Login(u)
    \/ Logout
    \/ Tick
    \/ \E t \in Tasks, item \in AddInputs : AddItemCall(t, item)
    \/ \E t \in Tasks, item \in UpdateInputs : UpdateItemCall(t, item)
    \/ \E t \in Tasks, id \in Ids : DeleteItemCall(t, id)
    \/ \E t \in Tasks, items \in Batches : AddItemsCall(t, items)
    \/ \E t \in Tasks : DeleteAllItemsCall(t)
    \/ \E t \in Tasks, id \in Ids : GetItemByIdCall(t, id)
    \/ \E t \in Tasks : GetAllItemsCall(t)
    \/ \E t \in Tasks, id \in Ids, form \in Forms : EditSubmitCall(t, id, form)
    \/ \E t \in Tasks : EditGet(t)
    \/ \E t \in Tasks : DbPut(t)
    \/ \E t \in Tasks : SyncItemToCloud(t)
    \/ \E t \in Tasks : DbDelete(t)
    \/ \E t \in Tasks : DeleteItemFromCloud(t)
    \/ \E t \in Tasks : TxPutAll(t)
    \/ \E t \in Tasks : DbClear(t)
    \/ \E t \in Tasks : DbGet(t)
    \/ \E t \in Tasks : DbGetAll(t)
    \/ \E t \in Tasks : StorageFailure(t)
    \/ ServerCommit
    \/ ServerReject
    \/ \E u \in Users, item \in RemoteInputs, ts \in 1..MaxTime : RemoteSet(u, item, ts)
    \/ \E u \in Users, id \in Ids : RemoteDelete(u, id)
    \/ ListenToCloudChanges
    \/ OnSnapshot
    \/ Unsubscribe

Spec == Init /\ [][Next]_vars

\* Scheduling: every awaited IndexedDB request settles, so a call that can take
\* its next step takes it, and the SDK keeps sending the writes it holds until
\* the backend has answered them (connectivity returns).
FairSpec ==
    /\ Spec
    /\ \A t \in Tasks :
           /\ WF_vars(EditGet(t))
           /\ WF_vars(DbPut(t)) /\ WF_vars(SyncItemToCloud(t))
           /\ WF_vars(DbDelete(t)) /\ WF_vars(DeleteItemFromCloud(t))
           /\ WF_vars(TxPutAll(t)) /\ WF_vars(DbClear(t))
           /\ WF_vars(DbGet(t)) /\ WF_vars(DbGetAll(t))
    /\ WF_vars(ServerCommit)

\* ------------------------------------------------------- the user interface
\* HomeScreen and its AddEditItemModal drive the same store functions.  The
\* modal is mounted once and keeps its form state while it is closed.

\* The form as the load effect fills it from an item.
FormOf(item) ==
    [name |-> item.name,
     description |-> IF Falsy(item.description) THEN "" ELSE item.description,
     labels |-> JoinLabels(item.labels),
     imageUrl |-> item.imageUrl, audioUrl |-> item.audioUrl,
     audioTranscription |-> IF Falsy(item.audioTranscription) THEN ""
                            ELSE item.audioTranscription,
     nameFrom |-> item.id, restFrom |-> item.id]

\* The array insertDummyData builds at time t: fresh ids (one range per call),
\* fixed names, creation times counted back from t.
DummyName(k) == IF k = 1 THEN "Car Keys" ELSE IF k = 2 THEN "Wallet" ELSE "Reading Glasses"

DummyItems(call, t) ==
    [k \in 1..DummyCount |->
        [id |-> 10 * call + k, name |-> DummyName(k),
         description |-> "Toyota keys with red keychain", createdAt |-> t - k,
         imageUrl |-> Undef, labels |-> <<"important", "daily">>, audioUrl |-> Undef,
         audioTranscription |-> Undef, latitude |-> Undef, longitude |-> Undef,
         locationName |-> Undef]]

IsDummy(id) == id > 10

\* The stores a HomeScreen is mounted on.
UiStores ==
    {EmptyStore, IDBPut(EmptyStore, ItemA(1)), IDBPut(IDBPut(EmptyStore, ItemA(1)), ItemB(2))}

UiInit ==
    /\ user = "A"
    /\ localStore \in UiStores
    /\ cloud = [u \in Users |-> EmptyCollection]
    /\ outbox = <<>>
    /\ now = 1
    /\ tasks = [t \in Tasks |-> NewTask]
    /\ listener = NoUser
    /\ seen = EmptyCollection
    /\ cbKind = "none"
    /\ changes = [id \in Ids |-> "none"]
    /\ lastWriter = [id \in Ids |-> 0]
    /\ maxTs = [u \in Users |-> [id \in Ids |-> 0]]
    /\ lastApplied = [u \in Users |-> EmptyCollection]
    /\ env = 0
    /\ modal = ClosedModal
    /\ conn = NoConnection
    /\ calc = NoCalc

\* A click on the card of an item: setModalState(item.id).  The modal opens in
\* edit mode and its effect starts getItemById(itemId); the form keeps what it
\* held until that promise resolves.
OpenEdit(id) ==
    /\ ~modal.isOpen
    /\ env < MaxUi
    /\ env' = env + 1
    /\ id \in DOMAIN localStore
    /\ modal' = [modal EXCEPT !.isOpen = TRUE, !.itemId = id, !.loads = @ \cup {id}]
    /\ UNCHANGED <<user, localStore, cloud, outbox, now, tasks, listener, seen, cbKind,
                   changes, lastWriter, maxTs, lastApplied, conn, calc>>

\* A click on the "+" button: setModalState('add'); the effect resets the form.
OpenAdd ==
    /\ ~modal.isOpen
    /\ env < MaxUi
    /\ env' = env + 1
    /\ modal' = [modal EXCEPT !.isOpen = TRUE, !.itemId = 0, !.form = EmptyForm]
    /\ UNCHANGED <<user, localStore, cloud, outbox, now, tasks, listener, seen, cbKind,
                   changes, lastWriter, maxTs, lastApplied, conn, calc>>

\* The getItemById(id) of a load effect resolves: its `then` fills the form
\* from the item (when there is one), whatever the modal shows by now.
LoadResolves(id) ==
    /\ id \in modal.loads
    /\ modal' = [modal EXCEPT
                    !.loads = @ \ {id},
                    !.form = IF IDBGet(localStore, id) = <<>> THEN @
                             ELSE FormOf(IDBGet(localStore, id)[1])]
    /\ UNCHANGED <<user, localStore, cloud, outbox, now, tasks, listener, seen, cbKind,
                   changes, lastWriter, maxTs, lastApplied, env, conn, calc>>

\* isLoading: a handleSubmit or handleDelete of the modal is between its
\* setIsLoading(true) and its setIsLoading(false).  Every input and button of
\* the modal is disabled meanwhile.
IsLoading ==
    \E t \in Tasks :
        /\ tasks[t].op \in {"editItem", "addItem", "deleteItem"}
        /\ tasks[t].status /= "invalid"
        /\ t \notin modal.returned

\* The user types into the name field of the open modal.
TypeName(text) ==
    /\ modal.isOpen
    /\ ~IsLoading
    /\ env < MaxUi
    /\ env' = env + 1
    /\ modal.form.name /= text
    /\ modal' = [modal EXCEPT !.form.name = text, !.form.nameFrom = modal.itemId]
    /\ UNCHANGED <<user, localStore, cloud, outbox, now, tasks, listener, seen, cbKind,
                   changes, lastWriter, maxTs, lastApplied, conn, calc>>

\* onClose (the Cancel button), or the onSaved / onClose a handler calls after
\* its save returned: setModalState(null).
CloseModal ==
    /\ modal.isOpen
    /\ env < MaxUi
    /\ env' = env + 1
    /\ modal' = [modal EXCEPT !.isOpen = FALSE]
    /\ UNCHANGED <<user, localStore, cloud, outbox, now, tasks, listener, seen, cbKind,
                   changes, lastWriter, maxTs, lastApplied, conn, calc>>

\* The form is submitted with the state the modal holds.
SubmitEdit(t) ==
    /\ modal.isOpen /\ modal.itemId /= 0
    /\ ~IsLoading
    /\ EditSubmitCall(t, modal.itemId, modal.form)

SubmitAdd(t, id) ==
    /\ modal.isOpen /\ modal.itemId = 0
    /\ ~IsLoading
    /\ AddSubmitCall(t, id, modal.form)

\* handleDelete: deleteItem(itemId).
DeleteFromModal(t) ==
    /\ modal.isOpen /\ modal.itemId /= 0
    /\ ~IsLoading
    /\ DeleteItemCall(t, modal.itemId)

\* handleSubmit / handleDelete after their last await: setIsLoading(false),
\* then onSaved() and onClose() when the call succeeded, the alert of the
\* catch block when it threw.
HandlerReturns(t) ==
    /\ tasks[t].op \in {"editItem", "addItem", "deleteItem"}
    /\ tasks[t].pc = "done" /\ tasks[t].status /= "invalid"
    /\ t \notin modal.returned
    /\ modal' = [modal EXCEPT !.returned = @ \cup {t},
                              !.isOpen = IF tasks[t].status = "ok" THEN FALSE ELSE @]
    /\ UNCHANGED <<user, localStore, cloud, outbox, now, tasks, listener, seen, cbKind,
                   changes, lastWriter, maxTs, lastApplied, env, conn, calc>>

\* HomeScreen mounts: loadItems() starts with `await getAllItems()`.
LoadItemsCall(t) ==
    /\ CanStart(t)
    /\ tasks' = Started(t, "loadItems", "loadGetAll", <<>>, 0)
    /\ UNCHANGED <<user, localStore, cloud, outbox, now, listener, seen, cbKind,
                   changes, lastWriter, maxTs, lastApplied, env>>
    /\ UNCHANGED aux

\* loadItems: itemsFromDB resolved; an empty list sends it to insertDummyData,
\* any other list is shown.
LoadGetAll(t) ==
    /\ tasks[t].pc = "loadGetAll"
    /\ tasks' = IF GetAllItems(localStore) = <<>>
                THEN [tasks EXCEPT ![t].pc = "seed"]
                ELSE [Finish(t, "ok") EXCEPT ![t].result = GetAllItems(localStore)]
    /\ UNCHANGED <<user, localStore, cloud, outbox, now, listener, seen, cbKind,
                   changes, lastWriter, maxTs, lastApplied, env>>
    /\ UNCHANGED aux

\* loadItems: `await insertDummyData()`, which puts its array with addItems.
InsertDummyData(t) ==
    /\ tasks[t].pc = "seed"
    /\ localStore' = PutAll(localStore, DummyItems(t, now))
    /\ tasks' = [tasks EXCEPT ![t].pc = "reload", ![t].wrote = TRUE, ![t].wuser = user,
                              ![t].had = localStore /= EmptyStore]
    /\ UNCHANGED <<user, cloud, outbox, now, listener, seen, cbKind, changes,
                   lastWriter, maxTs, lastApplied, env>>
    /\ UNCHANGED aux

\* loadItems: the second getAllItems(), whose result is shown.
LoadReload(t) ==
    /\ tasks[t].pc = "reload"
    /\ tasks' = [Finish(t, "ok") EXCEPT ![t].result = GetAllItems(localStore)]
    /\ UNCHANGED <<user, localStore, cloud, outbox, now, listener, seen, cbKind,
                   changes, lastWriter, maxTs, lastApplied, env>>
    /\ UNCHANGED aux

UiNext ==
    \/ \E id \in Ids : OpenEdit(id)
    \/ OpenAdd
    \/ \E id \in Ids : LoadResolves(id)
    \/ \E text \in {" Spare Keys ", "  "} : TypeName(text)
    \/ CloseModal
    \/ \E t \in Tasks : SubmitEdit(t)
    \/ \E t \in Tasks, id \in Ids : SubmitAdd(t, id)
    \/ \E t \in Tasks : DeleteFromModal(t)
    \/ \E t \in Tasks : HandlerReturns(t)
    \/ \E t \in Tasks : LoadItemsCall(t)
    \/ \E t \in Tasks : LoadGetAll(t)
    \/ \E t \in Tasks : InsertDummyData(t)
    \/ \E t \in Tasks : LoadReload(t)
    \/ \E t \in Tasks : EditGet(t)
    \/ \E t \in Tasks : DbPut(t)
    \/ \E t \in Tasks : SyncItemToCloud(t)
    \/ \E t \in Tasks : DbDelete(t)
    \/ \E t \in Tasks : DeleteItemFromCloud(t)
    \/ ServerCommit

UiSpec == UiInit /\ [][UiNext]_vars

\* ------------------------------------------------------ getDB and initDB
\* Every db.ts operation starts with `const db = await getDB()`.  Connections
\* are numbered in the order initDB opens them; 0 is the null of dbInstance.
\*   opening  for every call, the connection its pending initDB() will give
\*   used     (history) the connection getDB() returned to the call

\* The step of an operation that follows its `await getDB()`.
OpPc(op) ==
    CASE op = "addItem" -> "put"
      [] op = "updateItem" -> "put"
      [] op = "deleteItem" -> "delete"
      [] op = "getItemById" -> "get"
      [] op = "getAllItems" -> "getAll"

\* The operations tried, with their arguments.
ConnCalls ==
    {[op |-> "addItem", items |-> <<i>>, id |-> i.id] : i \in AddInputs}
    \cup {[op |-> "updateItem", items |-> <<i>>, id |-> i.id] : i \in UpdateInputs}
    \cup {[op |-> o, items |-> <<>>, id |-> id] : o \in {"deleteItem", "getItemById"},
                                                 id \in Ids}
    \cup {[op |-> "getAllItems", items |-> <<>>, id |-> 0]}

ConnInit == UiInit

\* An operation is called and runs getDB() up to its await: with dbInstance
\* null it calls initDB(), which opens a connection; otherwise getDB returns
\* dbInstance.
GetDB(t, call) ==
    /\ CanStart(t)
    /\ IF conn.dbInstance = 0
       THEN /\ tasks' = Started(t, call.op, "getDB", call.items, call.id)
            /\ conn' = [conn EXCEPT !.opened = @ + 1, !.opening[t] = conn.opened + 1]
       ELSE /\ tasks' = Started(t, call.op, OpPc(call.op), call.items, call.id)
            /\ conn' = [conn EXCEPT !.used[t] = conn.dbInstance]
    /\ UNCHANGED <<user, localStore, cloud, outbox, now, listener, seen, cbKind,
                   changes, lastWriter, maxTs, lastApplied, env, modal, calc>>

\* `dbInstance = await initDB(); return dbInstance;`: the open of this call
\* resolved.
InitDBResolves(t) ==
    /\ tasks[t].pc = "getDB"
    /\ conn' = [conn EXCEPT !.dbInstance = conn.opening[t], !.used[t] = conn.opening[t]]
    /\ tasks' = [tasks EXCEPT ![t].pc = OpPc(tasks[t].op)]
    /\ UNCHANGED <<user, localStore, cloud, outbox, now, listener, seen, cbKind,
                   changes, lastWriter, maxTs, lastApplied, env, modal, calc>>

ConnNext ==
    \/ \E t \in Tasks, call \in ConnCalls : GetDB(t, call)
    \/ \E t \in Tasks : InitDBResolves(t)
    \/ \E t \in Tasks : DbPut(t)
    \/ \E t \in Tasks : SyncItemToCloud(t)
    \/ \E t \in Tasks : DbDelete(t)
    \/ \E t \in Tasks : DeleteItemFromCloud(t)
    \/ \E t \in Tasks : DbGet(t)
    \/ \E t \in Tasks : DbGetAll(t)
    \/ ServerCommit

ConnSpec == ConnInit /\ [][ConnNext]_vars

\* ------------------------------------------------- calls of pure functions
\* The items the conversions are tried on: every combination of the optional
\* fields being absent or set (text fields are never the empty string:
\* handleSubmit stores `x || undefined`), with a latitude or longitude of 0.
Locations ==
    {<<Undef, Undef, Undef>>, <<"0", "77.2", "Home">>, <<"12.9", "0", "Office">>}

PureItems ==
    {[id |-> 1, name |-> n, description |-> d, createdAt |-> c, imageUrl |-> im,
      labels |-> ls, audioUrl |-> au, audioTranscription |-> tr,
      latitude |-> loc[1], longitude |-> loc[2], locationName |-> loc[3]] :
        n \in {"Car Keys", "Wallet"}, d \in {Undef, "Brown leather wallet"},
        c \in 1..MaxTime, im \in {Undef, "data:image"},
        ls \in {<<>>, <<"important">>, <<"important", "daily">>},
        au \in {Undef, "data:audio"}, tr \in {Undef, "voice note"},
        loc \in Locations}

\* A call of a pure function before it ran.
Call(fn, arg) == [fn |-> fn, arg |-> arg, out |-> <<>>]

RoundTripCalls == {Call("roundTrip", i) : i \in PureItems}

\* The stores searchItems is tried on and the texts searched for.
KeychainItem ==
    [ItemA(2) EXCEPT !.name = "Keychain", !.description = "Holds the CAR keys",
                     !.createdAt = 1]

SearchStores ==
    UNION {{s \in [D -> InputItems \cup {KeychainItem}] : \A id \in D : s[id].id = id} :
              D \in SUBSET Ids}

Queries == {"", "key", "KEY", "Car", "WALLET", "leather", "car keys", "xyz",
            "Brown leather wallets"}

SearchCalls == {Call("searchItems", q) : q \in Queries}

\* ------------------------------------------------------- locationService.ts
\* Distances are counted in decimetres (1 km = 10000), so that Math.round and
\* toFixed have something to round.
KM == 10000

\* The decimal numeral of a natural number, as template literals print it.
Digits == "0123456789"

RECURSIVE Numeral(_)
Numeral(n) ==
    IF n < 10 THEN CharAt(Digits, n + 1)
    ELSE Numeral(n \div 10) \o CharAt(Digits, (n % 10) + 1)

\* Math.round(x / unit) for x >= 0: the nearest integer, halves upwards.
Round(x, unit) == (2 * x + unit) \div (2 * unit)

\* (x / KM).toFixed(1)
ToFixed1(x) ==
    LET tenths == Round(x, KM \div 10)
    IN  Numeral(tenths \div 10) \o "." \o Numeral(tenths % 10)

\* formatDistance(distanceKm), distanceKm = d / KM.
formatDistance_WholeBelowTen(d) ==
    IF d < KM THEN Numeral(Round(d, KM \div 1000)) \o " m"
    ELSE Numeral(Round(d, KM)) \o " km"

formatDistance(d) ==
    IF d < KM THEN Numeral(Round(d, KM \div 1000)) \o " m"
    ELSE IF d < 10 * KM THEN ToFixed1(d) \o " km"
    ELSE Numeral(Round(d, KM)) \o " km"

\* The distances formatDistance is tried on: around every switch of unit and
\* of rounding.  A distance halfway between two tenths of a kilometre is
\* tried only where the double is exact (x.25, x.75).
Distances ==
    {0, 4, 5, 14, 15, 4996, 5000, 9994, 9995, 9999,
     KM, 12000, 12400, 12500, 12600, 17500, 55000, 99400, 99600, 99999,
     10 * KM, 104000, 105000, 120000, 500000, 550000, 554000, 555000}

FormatCalls == {Call("formatDistance", d) : d \in Distances}

PureCalls == RoundTripCalls \cup SearchCalls \cup FormatCalls

\* The program is idle while a pure function is called.
PureInit ==
    /\ user = "A"
    /\ calc \in PureCalls
    /\ localStore \in IF calc.fn = "searchItems" THEN SearchStores
                      ELSE {EmptyStore}
    /\ cloud = [u \in Users |-> EmptyCollection]
    /\ outbox = <<>>
    /\ now \in 1..MaxTime
    /\ tasks = [t \in Tasks |-> NewTask]
    /\ listener = NoUser
    /\ seen = EmptyCollection
    /\ cbKind = "none"
    /\ changes = [id \in Ids |-> "none"]
    /\ lastWriter = [id \in Ids |-> 0]
    /\ maxTs = [u \in Users |-> [id \in Ids |-> 0]]
    /\ lastApplied = [u \in Users |-> EmptyCollection]
    /\ env = 0
    /\ modal = ClosedModal
    /\ conn = NoConnection

\* syncItemToCloud builds the document of an item and documentToItem reads
\* it back.
RoundTrip ==
    /\ calc.fn = "roundTrip" /\ calc.out = <<>>
    /\ calc' = [calc EXCEPT !.out = <<documentToItem(ItemData(calc.arg, now))>>]
    /\ UNCHANGED <<user, localStore, cloud, outbox, now, tasks, listener, seen, cbKind,
                   changes, lastWriter, maxTs, lastApplied, env, modal, conn>>

\* searchItems(query): getAllItems(), then the filter.
Search ==
    /\ calc.fn = "searchItems" /\ calc.out = <<>>
    /\ calc' = [calc EXCEPT !.out = <<SearchItems(localStore, calc.arg)>>]
    /\ UNCHANGED <<user, localStore, cloud, outbox, now, tasks, listener, seen, cbKind,
                   changes, lastWriter, maxTs, lastApplied, env, modal, conn>>

\* formatDistance(distanceKm)
Format ==
    /\ calc.fn = "formatDistance" /\ calc.out = <<>>
    /\ calc' = [calc EXCEPT !.out = <<formatDistance(calc.arg)>>]
    /\ UNCHANGED <<user, localStore, cloud, outbox, now, tasks, listener, seen, cbKind,
                   changes, lastWriter, maxTs, lastApplied, env, modal, conn>>

PureNext ==
    \/ RoundTrip
    \/ Search
    \/ Format

PureSpec == PureInit /\ [][PureNext]_vars

\* =================================================================== claims
Done(t) == tasks[t].pc = "done"
Ok(t) == Done(t) /\ tasks[t].status = "ok"
IsPut(t) == tasks[t].op \in {"addItem", "updateItem", "editItem"}

\* C1: once addItem(i) or updateItem(i) has returned, a getItemById(i.id) made
\* afterwards, with no other write or delete of that id before it reads,
\* resolves to an item equal to i in every field.
C1_ReadAfterWrite ==
    \A g \in Tasks :
        (/\ tasks[g].op = "getItemById" /\ Ok(g)
         /\ tasks[g].prior /= 0
         /\ tasks[g].after = tasks[g].prior
         /\ IsPut(tasks[g].prior))
        => tasks[g].result = <<tasks[tasks[g].prior].items[1]>>

\* An update replaced the stored item 1 by ItemB(1), returned, and a later
\* getItemById(1) read it.
C1_Witness ==
    \E g \in Tasks :
        /\ tasks[g].op = "getItemById" /\ Ok(g)
        /\ tasks[g].prior /= 0
        /\ tasks[g].after = tasks[g].prior
        /\ tasks[tasks[g].prior].op = "updateItem"
        /\ tasks[tasks[g].prior].items = <<ItemB(1)>>
        /\ tasks[g].result = <<ItemB(1)>>

C3_RemoteChangeApplied ==
    [][OnSnapshot =>
        \A id \in Ids :
            /\ changes'[id] \in {"added", "modified"} =>
                   /\ id \in DOMAIN localStore'
                   /\ localStore'[id] = documentToItem(seen'[id])
            /\ changes'[id] = "removed" => id \notin DOMAIN localStore']_vars

\* C5 (as claimed): with a user signed in, once the local mutations made have
\* all returned and no sync step warned or failed, every item this session
\* left in the Local Store has been pushed by a call (setDoc issued for that
\* very item) and every id it removed has had a deleteDoc issued.
Pushed(id) ==
    \E t \in Tasks : IsPut(t) /\ tasks[t].issued = 1 /\ tasks[t].items = <<localStore[id]>>

DeleteIssued(id) ==
    \E t \in Tasks : tasks[t].op = "deleteItem" /\ tasks[t].id = id /\ tasks[t].issued = 1

C5_CloudMirrorsLocal ==
    (/\ user /= NoUser
     /\ \A t \in Tasks :
            \/ tasks[t].pc = "idle"
            \/ Ok(t) /\ tasks[t].auth = user /\ tasks[t].logged = "")
    => \A id \in Ids :
           lastWriter[id] /= 0 =>
               IF id \in DOMAIN localStore THEN Pushed(id) ELSE DeleteIssued(id)

\* C6 (as claimed): addItem and updateItem do not wait for the cloud push.
\* Whenever the setDoc of a call is still unacknowledged, the call has returned.
C6_ReturnsBeforePush ==
    \A i \in 1..Len(outbox) :
        outbox[i].kind = "set" => Done(outbox[i].task)

\* C7: a rejected setDoc or deleteDoc neither reaches the caller nor undoes
\* the local write.  A call whose cloud step failed has returned without
\* error, and the Local Store still holds what the call wrote (until another
\* call writes that id).
C7_SyncFailureSwallowed ==
    \A t \in Tasks :
        tasks[t].logged = "error" =>
            /\ Ok(t)
            /\ lastWriter[tasks[t].id] = t =>
                   IF IsPut(t)
                   THEN IDBGet(localStore, tasks[t].id) = tasks[t].items
                   ELSE IDBGet(localStore, tasks[t].id) = <<>>

\* An updateItem replaced the stored item 1, its setDoc was rejected, and the
\* call returned normally with the new item still stored.
C7_Witness ==
    \E t \in Tasks :
        /\ tasks[t].op = "updateItem" /\ tasks[t].logged = "error" /\ Ok(t)
        /\ tasks[t].items = <<ItemB(1)>>
        /\ localStore[1] = ItemB(1)

\* What getAllItems() would return holds no item with this id.
NotListed(id) ==
    \A i \in 1..Len(GetAllItems(localStore)) : GetAllItems(localStore)[i].id /= id

C9_DeleteThenGetNotFound ==
    /\ \A t \in Tasks :
           (tasks[t].op = "deleteItem" /\ Done(t) /\ tasks[t].status = "error")
           => tasks[t].fault
    /\ \A g \in Tasks :
           (/\ tasks[g].op = "getItemById" /\ Done(g) /\ ~tasks[g].fault
            /\ tasks[g].prior /= 0
            /\ tasks[g].after = tasks[g].prior
            /\ tasks[tasks[g].prior].op = "deleteItem")
           => tasks[g].status = "ok" /\ tasks[g].result = <<>>

\* A deleteItem of an id that was not stored returned without error and the
\* getItemById made afterwards resolved to undefined.
C9_Witness ==
    \E g \in Tasks :
        /\ tasks[g].op = "getItemById" /\ Ok(g)
        /\ tasks[g].prior /= 0
        /\ tasks[g].after = tasks[g].prior
        /\ tasks[tasks[g].prior].op = "deleteItem"
        /\ ~tasks[tasks[g].prior].had
        /\ Ok(tasks[g].prior)
        /\ tasks[g].result = <<>>

\* A sequence of items ordered by createdAt, newest first.
NewestFirst(r) ==
    \A i \in 1..Len(r) : \A j \in 1..Len(r) : i < j => r[i].createdAt >= r[j].createdAt

\* C10: getAllItems() returns exactly the stored items, newest first: in every
\* state for what it would return, and for what every call did return.
C10_ListNewestFirst ==
    /\ LET r == GetAllItems(localStore)
       IN  /\ Len(r) = Cardinality(DOMAIN localStore)
           /\ {r[i] : i \in 1..Len(r)} = {localStore[k] : k \in DOMAIN localStore}
           /\ NewestFirst(r)
    /\ \A g \in Tasks :
           (tasks[g].op = "getAllItems" /\ Ok(g)) => NewestFirst(tasks[g].result)

\* A getAllItems() returned two items with different createdAt, the newer
\* one first.
C10_Witness ==
    \E g \in Tasks :
        /\ tasks[g].op = "getAllItems" /\ Ok(g)
        /\ Len(tasks[g].result) = 2
        /\ tasks[g].result[1].createdAt > tasks[g].result[2].createdAt

\* The user who was signed in when the stored entry of an id was written by a
\* call of this session (NoUser: nobody, or the entry is older than the session).
WrittenBy(id) == IF lastWriter[id] = 0 THEN NoUser ELSE tasks[lastWriter[id]].wuser

\* C11 (as claimed): the Local Store is per-user.  A getItemById or getAllItems
\* that reads while a user is signed in returns no item that was written while
\* another user was signed in, and no such item is handed to setDoc.
C11_LocalStorePerUser ==
    [][/\ \A g \in Tasks :
             (user /= NoUser /\ (DbGet(g) \/ DbGetAll(g))) =>
                 \A i \in 1..Len(tasks'[g].result) :
                     WrittenBy(tasks'[g].result[i].id) \in {NoUser, user}
       /\ \A t \in Tasks :
             (user /= NoUser /\ SyncItemToCloud(t)) => tasks[t].wuser \in {NoUser, user}
      ]_vars

\* C12 (as claimed): every setDoc / deleteDoc a call issues goes to the
\* namespace users/{u}/items of the user u who made the call, whatever sign-out
\* and sign-in happen while the call is under way.
C12_PushToOwnNamespace ==
    \A t \in Tasks :
        (tasks[t].auth /= NoUser /\ tasks[t].uid /= NoUser) => tasks[t].uid = tasks[t].auth

\* C13 (as claimed): sign-out cancels the cloud subscription.  In no state is
\* an onSnapshot listener active while no user is signed in.
C13_NoListenerWithoutUser == user = NoUser => listener = NoUser

\* C14: once the Unsubscribe function returned by listenToCloudChanges has been
\* called, the callback is not invoked again (no snapshot, no docChanges reach
\* it), whatever changes the collection sees afterwards or had seen without
\* their snapshot being delivered yet; only a new listenToCloudChanges call
\* makes callbacks happen again.
C14_NoCallbackAfterUnsubscribe ==
    [][cbKind = "unsubscribed" =>
          \/ cbKind' = "unsubscribed" /\ changes' = changes /\ seen' = seen
          \/ ListenToCloudChanges]_vars

\* The subscription of user A was cancelled while the collection already held
\* a document whose snapshot had not been delivered.
C14_Witness ==
    /\ cbKind = "unsubscribed"
    /\ listener = NoUser
    /\ cloud["A"] /= seen
    /\ \E t \in Tasks : IsPut(t) /\ tasks[t].uid = "A" /\ Ok(t) /\ tasks[t].logged = ""

\* With no user signed in, the cloud step of a call issues no write, touches no
\* store, warns, and lets the call return without error after its local write.
CloudStepSkipped(t) ==
    /\ outbox' = outbox /\ cloud' = cloud /\ localStore' = localStore
    /\ tasks'[t].pc = "done" /\ tasks'[t].status = "ok"
    /\ tasks'[t].issued = 0 /\ tasks'[t].logged = "warn" /\ tasks'[t].wrote

\* C15 (as claimed): with no user signed in syncItemToCloud, deleteItemFromCloud
\* and listenToCloudChanges do nothing: no write, no delete, no subscription,
\* no invocation of the change callback, no error.
C15_NoUserNoOp ==
    [][user = NoUser =>
          /\ \A t \in Tasks : (SyncItemToCloud(t) \/ DeleteItemFromCloud(t)) => CloudStepSkipped(t)
          /\ ListenToCloudChanges =>
                 listener' = NoUser /\ cbKind' = cbKind /\ changes' = changes]_vars

\* C15 (amended): the same, except that listenToCloudChanges does invoke the
\* callback, once, with null instead of a snapshot (no docChanges reach it).
C15_NoUserNoWrite ==
    [][user = NoUser =>
          /\ \A t \in Tasks : (SyncItemToCloud(t) \/ DeleteItemFromCloud(t)) => CloudStepSkipped(t)
          /\ ListenToCloudChanges =>
                 listener' = NoUser /\ cbKind' = "null" /\ changes' = changes
                 /\ seen' = seen /\ cloud' = cloud /\ outbox' = outbox]_vars

\* Signed out, listenToCloudChanges was called (its callback received null) and
\* an addItem returned normally with its item stored and nothing sent.
C15_Witness ==
    /\ user = NoUser /\ cbKind = "null" /\ listener = NoUser
    /\ \E t \in Tasks :
           /\ tasks[t].op = "addItem" /\ Ok(t) /\ tasks[t].logged = "warn"
           /\ tasks[t].issued = 0 /\ tasks[t].auth = NoUser
           /\ IDBGet(localStore, tasks[t].id) = tasks[t].items
    /\ outbox = <<>> /\ \A u \in Users : cloud[u] = EmptyCollection

\* The Cloud Mirror reflects the local write of call t: the namespace of the
\* user who made it holds the item (or, for a delete, no longer holds the id),
\* or a later local write of the same id has taken its place.
Mirrored(t) ==
    /\ tasks[t].wrote
    /\ tasks[t].id \in Ids
    /\ tasks[t].wuser \in Users
    /\ \/ lastWriter[tasks[t].id] /= t
       \/ LET c == cloud[tasks[t].wuser]
          IN  IF IsPut(t)
              THEN /\ tasks[t].id \in DOMAIN c
                   /\ c[tasks[t].id] = ItemData(tasks[t].items[1], c[tasks[t].id].updatedAt)
              ELSE tasks[t].id \notin DOMAIN c

\* C16 (as claimed): every addItem, updateItem, edit or deleteItem whose local write
\* was made with a user signed in is eventually reflected in the Cloud Mirror,
\* also when its first push was refused.
C16_EventuallyMirrored ==
    \A t \in Tasks :
        (/\ tasks[t].op \in {"addItem", "updateItem", "editItem", "deleteItem"}
         /\ tasks[t].wrote /\ tasks[t].wuser /= NoUser) ~> Mirrored(t)

\* C17: a call issues its setDoc / deleteDoc only after its own write of the
\* Local Store for that id succeeded; a call whose local write failed issues
\* none.
C17_CloudAfterLocal ==
    /\ \A t \in Tasks : tasks[t].issued > 0 => tasks[t].wrote /\ ~tasks[t].fault
    /\ \A i \in 1..Len(outbox) :
           outbox[i].task /= 0 =>
               /\ tasks[outbox[i].task].wrote
               /\ tasks[outbox[i].task].id = outbox[i].id
    /\ \A t \in Tasks :
           tasks[t].fault =>
               /\ ~tasks[t].wrote /\ tasks[t].issued = 0
               /\ \A i \in 1..Len(outbox) : outbox[i].task /= t

\* With user A signed in the db.put of an addItem failed: the call rejected,
\* the item is not stored and no setDoc was issued.
C17_Witness ==
    /\ user = "A"
    /\ \E t \in Tasks :
           /\ tasks[t].op = "addItem" /\ tasks[t].auth = "A"
           /\ tasks[t].fault /\ Done(t) /\ tasks[t].status = "error"
           /\ tasks[t].issued = 0
           /\ lastWriter[tasks[t].id] = 0 /\ tasks[t].id \notin DOMAIN localStore
           /\ tasks[t].id \notin DOMAIN cloud["A"]

\* C18: a call whose IndexedDB request failed rejects: it is over with an
\* error, never with success and never with the "not found" answer (a
\* resolved undefined or empty list); a call that resolved had no failure.
C18_StorageFailureSurfaced ==
    \A t \in Tasks :
        /\ tasks[t].fault => Done(t) /\ tasks[t].status = "error"
        /\ Ok(t) => ~tasks[t].fault

\* The db.get of a getItemById for an id that is stored failed, and the call
\* rejected.
C18_Witness ==
    \E t \in Tasks :
        /\ tasks[t].op = "getItemById" /\ tasks[t].fault
        /\ Done(t) /\ tasks[t].status = "error"
        /\ tasks[t].id \in DOMAIN localStore

\* C19: the createdAt of an id survives edits and pushes.  The db.put of an
\* edit (no other call having written the id since the edit read it) leaves
\* the stored createdAt as it was; every document handed to setDoc carries the
\* createdAt of the item it was built from; and documentToItem reads a
\* document back with the createdAt it holds.
C19_CreatedAtImmutable ==
    [][/\ \A t \in Tasks :
             (/\ DbPut(t) /\ tasks[t].op = "editItem"
              /\ lastWriter[tasks[t].id] = tasks[t].after) =>
                 /\ tasks[t].id \in DOMAIN localStore
                 /\ localStore'[tasks[t].id].createdAt = localStore[tasks[t].id].createdAt
       /\ \A t \in Tasks :
             (SyncItemToCloud(t) /\ user /= NoUser) =>
                 outbox'[Len(outbox')].data[1].createdAt = tasks[t].items[1].createdAt
       /\ \A u \in Users : \A id \in DOMAIN cloud'[u] :
             documentToItem(cloud'[u][id]).createdAt = cloud'[u][id].createdAt
      ]_vars

\* An edit of the stored item 1 changed its name and was pushed: the Local
\* Store and users/A/items/1 both hold the createdAt the item had before.
C19_Witness ==
    \E t \in Tasks :
        /\ tasks[t].op = "editItem" /\ Ok(t) /\ tasks[t].wrote /\ tasks[t].logged = ""
        /\ tasks[t].uid = "A" /\ tasks[t].id = 1
        /\ tasks[t].result[1].name /= "Spare Keys"
        /\ 1 \in DOMAIN localStore /\ localStore[1].name = "Spare Keys"
        /\ localStore[1].createdAt = tasks[t].result[1].createdAt
        /\ 1 \in DOMAIN cloud["A"]
        /\ cloud["A"][1].createdAt = tasks[t].result[1].createdAt
        /\ now > tasks[t].result[1].createdAt

\* item.updatedAt as JavaScript reads it: undefined for a record without the
\* field; and `a > b`, false when either side is undefined.
UpdatedAtOf(rec) == IF "updatedAt" \in DOMAIN rec THEN rec.updatedAt ELSE Undef

JsGreater(a, b) == a /= Undef /\ b /= Undef /\ a > b

\* C20 (as claimed): every mutation of a stored item raises its updatedAt.
\* When an edit overwrites the stored entry of an id, the updatedAt that
\* getItemById(id) returns afterwards is greater than the one it returned
\* before.
C20_UpdatedAtIncreases ==
    [][\A t \in Tasks :
          (/\ DbPut(t) /\ tasks[t].op \in {"updateItem", "editItem"}
           /\ tasks[t].id \in DOMAIN localStore) =>
              JsGreater(UpdatedAtOf(IDBGet(localStore', tasks[t].id)[1]),
                        UpdatedAtOf(IDBGet(localStore, tasks[t].id)[1]))]_vars

\* C21: the document syncItemToCloud writes for an item, read back with
\* documentToItem, is an item equal to the original in every one of the eleven
\* fields (the document's updatedAt is not part of the item).
C21_DocumentRoundTrip ==
    (calc.fn = "roundTrip" /\ calc.out /= <<>>) =>
        /\ calc.out[1] = calc.arg
        /\ DOMAIN calc.out[1] =
               {"id", "name", "description", "createdAt", "imageUrl", "labels",
                "audioUrl", "audioTranscription", "latitude", "longitude",
                "locationName"}

\* An item with every optional field set and a latitude of 0 went through the
\* round trip.
C21_Witness ==
    /\ calc.fn = "roundTrip" /\ calc.out /= <<>>
    /\ calc.arg.latitude = "0" /\ calc.arg.locationName = "Home"
    /\ calc.arg.description /= Undef /\ calc.arg.imageUrl /= Undef
    /\ calc.arg.audioUrl /= Undef /\ calc.arg.audioTranscription /= Undef
    /\ calc.arg.labels /= <<>>
    /\ calc.out[1].latitude = "0" /\ calc.out[1].locationName = "Home"

\* C22: a save whose name is empty or blank is refused before anything is
\* read or written: its handler is over without a Local Store write and
\* without a setDoc; every save that did write stored the trimmed, non-empty
\* name, so no stored item has an empty or untrimmed name.
C22_BlankNameRejected ==
    /\ \A t \in Tasks :
           tasks[t].form /= <<>> =>
               /\ Trim(tasks[t].form[1].name) = "" =>
                      /\ Done(t) /\ tasks[t].status = "invalid"
                      /\ ~tasks[t].wrote /\ tasks[t].issued = 0 /\ tasks[t].items = <<>>
               /\ tasks[t].wrote =>
                      /\ tasks[t].items[1].name = Trim(tasks[t].form[1].name)
                      /\ tasks[t].items[1].name /= ""
    /\ \A id \in DOMAIN localStore :
           localStore[id].name /= "" /\ Trim(localStore[id].name) = localStore[id].name
    /\ \A i \in 1..Len(outbox) :
           outbox[i].kind = "set" => outbox[i].data[1].name /= ""

\* A save with a blank name was refused in add mode and, the modal reopened
\* on a stored item, one in edit mode: both
\* handlers are over, nothing was written and nothing sent.
C22_Witness ==
    /\ \E t \in Tasks :
           /\ tasks[t].op = "addItem" /\ tasks[t].status = "invalid"
           /\ tasks[t].form[1].name = "  "
    /\ \E t \in Tasks :
           /\ tasks[t].op = "editItem" /\ tasks[t].status = "invalid"
           /\ Trim(tasks[t].form[1].name) = ""
           /\ tasks[t].id \in DOMAIN localStore
    /\ \A id \in Ids : lastWriter[id] = 0
    /\ outbox = <<>>

\* latitude and longitude of an item (absent: undefined) or of a document
\* (absent: null) are both there or both absent.
PairedItem(item) == (item.latitude = Undef) <=> (item.longitude = Undef)

PairedDoc(data) == (data.latitude = Null) <=> (data.longitude = Null)

\* C23: every item of the Local Store and every document of the Cloud Mirror
\* has latitude and longitude both or neither, and so has every document
\* syncItemToCloud sends for a stored item and every item documentToItem reads
\* from a stored document.
C23_LatLongPaired ==
    /\ \A id \in DOMAIN localStore :
           PairedItem(localStore[id]) /\ PairedDoc(ItemData(localStore[id], now))
    /\ \A i \in 1..Len(outbox) : outbox[i].kind = "set" => PairedDoc(outbox[i].data[1])
    /\ \A u \in Users : \A id \in DOMAIN cloud[u] :
           PairedDoc(cloud[u][id]) /\ PairedItem(documentToItem(cloud[u][id]))

\* An item located at latitude 0 is stored and its pushed document holds the
\* same pair of coordinates.
C23_Witness ==
    \E t \in Tasks :
        /\ IsPut(t) /\ Ok(t) /\ tasks[t].uid = "A" /\ tasks[t].logged = ""
        /\ tasks[t].items[1].latitude = "0" /\ tasks[t].items[1].longitude = "77.2"
        /\ tasks[t].id \in DOMAIN localStore /\ localStore[tasks[t].id].latitude = "0"
        /\ tasks[t].id \in DOMAIN cloud["A"]
        /\ cloud["A"][tasks[t].id].latitude = "0"
        /\ cloud["A"][tasks[t].id].longitude = "77.2"
        /\ documentToItem(cloud["A"][tasks[t].id]).latitude = "0"

\* item's text holds query at some position when letter case is ignored.
OccursIgnoringCase(text, query) ==
    \E i \in 1..(Len(text) - Len(query) + 1) :
        \A k \in 1..Len(query) :
            LowerChar(CharAt(text, i + k - 1)) = LowerChar(CharAt(query, k))

SearchMatch(item, query) ==
    \/ OccursIgnoringCase(item.name, query)
    \/ item.description /= Undef /\ OccursIgnoringCase(item.description, query)

\* C24: searchItems(q) returns exactly the items of getAllItems() whose name
\* or description contains q, letter case ignored, in the order getAllItems()
\* returns them, and leaves the Local Store and the Cloud Mirror unchanged.
C24_SearchIsFilter ==
    /\ [](calc.fn = "searchItems" /\ calc.out /= <<>> =>
             calc.out[1] = SelectSeq(GetAllItems(localStore),
                                     LAMBDA item : SearchMatch(item, calc.arg)))
    /\ [][calc.fn = "searchItems" /\ calc' /= calc =>
             localStore' = localStore /\ cloud' = cloud /\ outbox' = outbox]_vars

\* A search for "Car" finds the item named "Car Keys" and the item whose
\* description holds "CAR", in the order of getAllItems(), and a search for
\* "KEY" leaves out the wallet.
C24_Witness ==
    /\ calc.fn = "searchItems" /\ calc.arg = "Car" /\ calc.out /= <<>>
    /\ DOMAIN localStore = Ids
    /\ localStore[1].name = "Car Keys" /\ localStore[2].name = "Keychain"
    /\ Len(calc.out[1]) = 2 /\ calc.out[1][1].id = 2 /\ calc.out[1][2].id = 1
    /\ Len(SearchItems(PutAll(EmptyStore, <<ItemB(1), KeychainItem>>), "KEY")) = 1

\* n units is a nearest whole number of units to the distance d.
Nearest(n, unit, d) == 2 * (n * unit - d) <= unit /\ 2 * (d - n * unit) <= unit

\* C25: formatDistance prints a distance below 1 km as a whole number of
\* metres followed by " m", a distance from 1 km and below 10 km as kilometres
\* with one decimal followed by " km", and a distance of 10 km or more as a
\* whole number of kilometres; 0.5 km gives "500 m", 1.2 km gives "1.2 km",
\* 55 km gives "55 km".
C25_FormatDistance ==
    calc.fn = "formatDistance" /\ calc.out /= <<>> =>
        LET d == calc.arg
            text == calc.out[1]
        IN  /\ d < KM =>
                   \E m \in 0..1000 :
                       Nearest(m, KM \div 1000, d) /\ text = Numeral(m) \o " m"
            /\ d >= KM /\ d < 10 * KM =>
                   \E whole \in 1..10, tenth \in 0..9 :
                       /\ Nearest(10 * whole + tenth, KM \div 10, d)
                       /\ text = Numeral(whole) \o "." \o Numeral(tenth) \o " km"
            /\ d >= 10 * KM =>
                   \E k \in 10..100 : Nearest(k, KM, d) /\ text = Numeral(k) \o " km"
            /\ d = 5000 => text = "500 m"
            /\ d = 12000 => text = "1.2 km"
            /\ d = 550000 => text = "55 km"

\* 1.2 km has been formatted, as "1.2 km".
C25_Witness ==
    calc.fn = "formatDistance" /\ calc.arg = 12000 /\ calc.out = <<"1.2 km">>

\* C26 (as claimed): once a deleteItem(id) has completed and the id is absent
\* from the Local Store, no edit save of that id, started before or after,
\* writes to the Local Store or pushes to the cloud.
C26_DeletedStaysDeleted ==
    [][\A d \in Tasks, t \in Tasks :
          (/\ tasks[d].op = "deleteItem" /\ Ok(d)
           /\ tasks[t].op = "editItem" /\ tasks[t].id = tasks[d].id
           /\ tasks[t].id \notin DOMAIN localStore) =>
              /\ tasks'[t].wrote = tasks[t].wrote
              /\ tasks'[t].issued = tasks[t].issued
              /\ tasks[t].id \notin DOMAIN localStore'
      ]_vars

\* C27 (as claimed): an edit save of item B never writes form values that
\* were loaded from, or typed for, another item A that was open before,
\* whatever the order of the getItemById completions and the submit.
C27_NoStaleFormValues ==
    \A t \in Tasks :
        (tasks[t].op = "editItem" /\ tasks[t].wrote) =>
            /\ tasks[t].form[1].nameFrom \notin Ids \ {tasks[t].id}
            /\ tasks[t].form[1].restFrom \notin Ids \ {tasks[t].id}

\* C28 (as claimed): however the loadItems of HomeScreen mounts interleave,
\* the Local Store never holds more than one batch of dummy items.
C28_SeededOnce ==
    Cardinality({id \in DOMAIN localStore : IsDummy(id)}) <= DummyCount

FrameFields == {"id", "createdAt", "latitude", "longitude", "locationName"}

\* C29: the put of an edit save (with no other write of the id since the edit
\* read it) leaves id, createdAt, latitude, longitude and locationName of the
\* stored item as they were; name, description, labels, imageUrl, audioUrl and
\* audioTranscription are what the form held.
C29_EditFrame ==
    [][\A t \in Tasks :
          (/\ DbPut(t) /\ tasks[t].op = "editItem"
           /\ lastWriter[tasks[t].id] = tasks[t].after) =>
              /\ tasks[t].id \in DOMAIN localStore
              /\ LET old == localStore[tasks[t].id]
                     new == localStore'[tasks[t].id]
                     form == tasks[t].form[1]
                 IN  /\ DOMAIN new = DOMAIN old
                     /\ \A f \in FrameFields : new[f] = old[f]
                     /\ new.name = Trim(form.name)
                     /\ new.description = (IF Trim(form.description) = "" THEN Undef
                                           ELSE Trim(form.description))
                     /\ new.labels = ParseLabels(form.labels)
                     /\ new.imageUrl = form.imageUrl /\ new.audioUrl = form.audioUrl
                     /\ new.audioTranscription = (IF form.audioTranscription = ""
                                                  THEN Undef ELSE form.audioTranscription)
      ]_vars

\* An item located at latitude 0 / "Home" was edited: its name is the one
\* of the form and its location is the one it had.
C29_Witness ==
    \E t \in Tasks :
        /\ tasks[t].op = "editItem" /\ Ok(t) /\ tasks[t].wrote
        /\ tasks[t].result[1].name = "Wallet" /\ tasks[t].result[1].latitude = "0"
        /\ tasks[t].id \in DOMAIN localStore
        /\ localStore[tasks[t].id].name = "Spare Keys"
        /\ localStore[tasks[t].id].latitude = "0"
        /\ localStore[tasks[t].id].longitude = "77.2"
        /\ localStore[tasks[t].id].locationName = "Home"
        /\ localStore[tasks[t].id].createdAt = tasks[t].result[1].createdAt
        /\ localStore[tasks[t].id].imageUrl = Undef

\* C30 (as claimed): whatever the interleaving of the operations, initDB
\* opens at most one connection in a session and getDB() returns the same
\* connection to every operation.
C30_SingleConnection ==
    /\ conn.opened <= 1
    /\ \A a \in Tasks, b \in Tasks :
           (conn.used[a] /= 0 /\ conn.used[b] /= 0) => conn.used[a] = conn.used[b]

====
